---------------------------- MODULE Spec2Model ----------------------------
(***************************************************************************)
(* The sync planning engine of command/sync.go: the skip filter applied   *)
(* by the two listing tasks, the merge-diff of compareObjects, the         *)
(* destination resolver generateDestinationURL, the plan emitter planRun   *)
(* with the stream it writes to, and the start and the end of Run: the     *)
(* validation before the listing, and the error aggregator.                *)
(*                                                                         *)
(* Strings are sequences of byte values, compared bytewise as Go compares  *)
(* strings.  The host platform is part of the state: filepath.ToSlash      *)
(* rewrites the host separator, which is '/' on unix and '\' on windows.   *)
(***************************************************************************)
EXTENDS Integers, Sequences, FiniteSets, TLC

VARIABLES
    goos,            \* host platform of the build: "linux" or "windows"
    sourceObjects,   \* compareObjects: the source list (sorted in place)
    destObjects,     \* compareObjects: the destination list (sorted in place)
    iSrc,            \* compareObjects: cursor into sourceObjects (0-based)
    iDst,            \* compareObjects: cursor into destObjects (0-based)
    srcOnly,         \* compareObjects: URLs found only in the source
    dstOnly,         \* compareObjects: URLs found only in the destination
    commonObj,       \* compareObjects: ObjectPairs found on both sides
    cpc,             \* compareObjects: "idle", "sort", "loop" or "done"
    resSrc,          \* generateDestinationURL: srcurl
    resDst,          \* generateDestinationURL: dsturl
    resBatch,        \* generateDestinationURL: isBatch
    resOut,          \* generateDestinationURL: the URL returned
    rpc,             \* generateDestinationURL: "idle", "call" or "done"
    pDelete,         \* planRun: s.delete
    pBatch,          \* planRun: isBatch
    pDst,            \* planRun: dsturl
    ppc,             \* planRun: "idle", "onlySource", "common", "onlyDest", "close" or "closed"
    pIdx,            \* planRun: index of the range loop in progress (0-based)
    pipe,            \* io.Pipe: the entry a blocked Write offers, if any
    received,        \* io.Pipe: the entries the consumer has read, in order
    closed,          \* io.Pipe: w.Close() was called
    debugLog,        \* printDebug: the records traced so far
    strategyLog,     \* strategy.ShouldSync: the results returned so far, in call order
    srcChan,         \* listing: the objects sourceClient.List yields, in order
    dstChan,         \* listing: the objects destClient.List yields, in order
    srcIdx,          \* listing: objects the source task has taken from its channel
    dstIdx,          \* listing: objects the destination task has taken from its channel
    lpcSrc,          \* listing: the source task, "idle", "run" or "done"
    lpcDst,          \* listing: the destination task, "idle", "run" or "done"
    lpc,             \* Run and getSourceAndDestinationObjects: the statement reached, "idle",
                     \* "wait" (wg.Wait), "returned" or "failed" among them
    errorLog,        \* printError: the errors reported so far
    cancelled,       \* c.Context is cancelled
    xpc,             \* the executor NewRun(c, pipeReader).Run: "idle", "run", "eof" or "returned"
    errCh,           \* waiter.Err(): the errors the executor's operations report, in order
    errIdx,          \* waiter.Err(): errors the aggregator has received
    apc,             \* the aggregator goroutine: "idle", "recv", "handle" or "exited"
    aErr,            \* the aggregator goroutine: err of the range loop
    merrorWaiter,    \* Run: the accumulated errors
    execErr,         \* Run: err, the executor's own result
    mpc,             \* Run: "idle", "exec" (line 211) or "returned"
    result,          \* Run: the value returned
    exitCode,        \* os.Exit: the status the process exited with, -1 while it runs
    stdout           \* fmt.Println, fmt.Printf: the lines written

compareVars == <<sourceObjects, destObjects, iSrc, iDst, srcOnly, dstOnly, commonObj, cpc>>

resolveVars == <<resSrc, resDst, resBatch, resOut, rpc>>

planVars == <<pDelete, pBatch, pDst, ppc, pIdx, pipe, received, closed, debugLog, strategyLog>>

listVars == <<srcChan, dstChan, srcIdx, dstIdx, lpcSrc, lpcDst, lpc>>

aggVars == <<errCh, errIdx, apc, aErr, merrorWaiter, execErr, mpc, result, exitCode, stdout>>

runVars == <<cancelled, xpc, aggVars>>

vars == <<goos, compareVars, resolveVars, planVars, listVars, errorLog, runVars>>

---------------------------------------------------------------------------
(* Bounds of the model. *)

\* longest relative path, in bytes
MaxPathLen == 3

\* most objects listed in one run, both sides together
MaxObjects == 4

\* most objects the two listing channels yield, both sides together
MaxListed == 3

\* most errors the operations of one run report on the error channel
MaxErrors == 3

---------------------------------------------------------------------------
(* Bytes and strings. *)

\* '/'
Slash == 47

\* '\', the separator of windows
Backslash == 92

\* The bytes of file names: '0', which Go orders between '/' and '\'.
NameBytes == {48}

Zero == CHOOSE c \in NameBytes : TRUE

Chars == {Slash, Backslash} \cup NameBytes

GOOS == {"linux", "windows"}

Min(a, b) == IF a < b THEN a ELSE b

\* Go's < on strings: bytewise lexicographic order.
StrLess(a, b) ==
    \E k \in 1..(Min(Len(a), Len(b)) + 1) :
        /\ \A j \in 1..(k - 1) : a[j] = b[j]
        /\ \/ k > Len(a) /\ k <= Len(b)
           \/ k <= Len(a) /\ k <= Len(b) /\ a[k] < b[k]

\* os.PathSeparator of the host.
Separator(os) == IF os = "windows" THEN Backslash ELSE Slash

\* filepath.ToSlash: every host separator becomes '/'; the identity where the
\* host separator already is '/'.
ToSlash(os, path) ==
    IF Separator(os) = Slash
    THEN path
    ELSE [k \in 1..Len(path) |-> IF path[k] = Separator(os) THEN Slash ELSE path[k]]

\* Relative paths: names of '0' bytes in directories, written with either
\* separator byte; no empty component.
IsSep(c) == c \in {Slash, Backslash}

RelPaths ==
    { p \in UNION { [1..n -> Chars] : n \in 1..MaxPathLen } :
        /\ ~IsSep(p[1])
        /\ ~IsSep(p[Len(p)])
        /\ \A k \in 1..(Len(p) - 1) : ~(IsSep(p[k]) /\ IsSep(p[k + 1])) }

---------------------------------------------------------------------------
(* URLs and objects. *)

\* url.URL: the fields the engine reads.
MkURL(remote, path, rel) == [remote |-> remote, path |-> path, rel |-> rel]

\* url.URL.Relative
Relative(u) == u.rel

\* storage.Object as the listing yields it.
MkObject(u, type, err, class) == [URL |-> u, Type |-> type, Err |-> err, StorageClass |-> class]

\* An eligible object listed at relative path p under the listing root.
FileAt(p) == MkObject(MkURL(TRUE, p, p), "file", "nil", "STANDARD")

\* No URL: the value of a URL variable not in use.
NoURL == MkURL(FALSE, <<>>, <<>>)

\* url.URL.IsRemote
IsRemote(u) == u.remote

\* url.URL.IsPrefix: remote, with a trailing separator.
IsPrefix(u) == IsRemote(u) /\ u.path # <<>> /\ u.path[Len(u.path)] = Slash

\* url.URL.IsBucket: remote, with no object key.
IsBucket(u) == IsRemote(u) /\ u.path = <<>>

\* The bytes that end a directory name in a path of u.
BaseSeps(os, u) == IF IsRemote(u) THEN {Slash} ELSE {Slash, Separator(os)}

\* url.URL.Base: the last element of the path.
Base(os, u) ==
    LET cuts == { k \in 1..Len(u.path) : u.path[k] \in BaseSeps(os, u) }
        from == IF cuts = {} THEN 1 ELSE 1 + CHOOSE k \in cuts : \A j \in cuts : j <= k
    IN  SubSeq(u.path, from, Len(u.path))

\* url.URL.Join: the URL of name s under u.
Join(u, s) ==
    [u EXCEPT !.path = IF @ = <<>> \/ @[Len(@)] = Slash THEN @ \o s ELSE @ \o <<Slash>> \o s]

\* url.URL.Clone
Clone(u) == u

\* The destinations of a run: a bucket root, a remote exact key, a remote
\* prefix, a local file name, a local directory.
DestURLs ==
    { MkURL(TRUE, <<>>, <<>>), MkURL(TRUE, <<Zero>>, <<>>), MkURL(TRUE, <<Zero, Slash>>, <<>>),
      MkURL(FALSE, <<Zero>>, <<>>), MkURL(FALSE, <<Zero, Slash>>, <<>>) }

\* The idle values of the variables of generateDestinationURL.
ResolveIdle ==
    /\ resSrc = NoURL
    /\ resDst = NoURL
    /\ resBatch = FALSE
    /\ resOut = NoURL
    /\ rpc = "idle"

\* The idle values of the variables of planRun and its stream.
PlanIdle ==
    /\ pDelete = FALSE
    /\ pBatch = FALSE
    /\ pDst = NoURL
    /\ ppc = "idle"
    /\ pIdx = 0
    /\ pipe = <<>>
    /\ received = <<>>
    /\ closed = FALSE
    /\ debugLog = <<>>
    /\ strategyLog = <<>>

\* The idle values of the variables of the listing tasks.
ListIdle ==
    /\ srcChan = <<>>
    /\ dstChan = <<>>
    /\ srcIdx = 0
    /\ dstIdx = 0
    /\ lpcSrc = "idle"
    /\ lpcDst = "idle"
    /\ lpc = "idle"
    /\ errorLog = <<>>

\* Sequences over S of length at most n.
SeqsUpTo(S, n) == UNION { [1..k -> S] : k \in 0..n }

\* No value returned yet.
NoResult == <<"none">>

\* The idle values of the variables of the error aggregator and of Run's end.
AggIdle ==
    /\ errCh = <<>>
    /\ errIdx = 0
    /\ apc = "idle"
    /\ aErr = <<>>
    /\ merrorWaiter = <<>>
    /\ execErr = <<>>
    /\ mpc = "idle"
    /\ result = NoResult
    /\ exitCode = -1
    /\ stdout = <<>>

\* The idle values of all the variables of Run's end.
RunIdle ==
    /\ cancelled = FALSE
    /\ xpc = "idle"
    /\ AggIdle

---------------------------------------------------------------------------
(* compareObjects *)

\* SortLess that orders nothing: the sort leaves each list as it was listed.
SortLessNone(a, b) == FALSE

\* The less function of both sort.SliceStable calls: raw relative paths.
SortLess(a, b) == StrLess(Relative(a.URL), Relative(b.URL))

\* Insert x behind every element that is not greater than x.
RECURSIVE InsertStable(_, _)
InsertStable(sorted, x) ==
    IF sorted = <<>> THEN <<x>>
    ELSE IF SortLess(x, Head(sorted)) THEN <<x>> \o sorted
    ELSE <<Head(sorted)>> \o InsertStable(Tail(sorted), x)

\* sort.SliceStable with SortLess: a stable sort.
RECURSIVE SliceStable(_)
SliceStable(objs) ==
    IF objs = <<>> THEN <<>>
    ELSE InsertStable(SliceStable(SubSeq(objs, 1, Len(objs) - 1)), objs[Len(objs)])

\* The key the merge loop compares.
MergeName(os, obj) == ToSlash(os, Relative(obj.URL))

MkPair(src, dst) == [src |-> src, dst |-> dst]

\* The loop's state before its first iteration.
LoopStart == [iSrc |-> 0, iDst |-> 0, srcOnly |-> <<>>, dstOnly |-> <<>>, commonObj |-> <<>>, done |-> FALSE]

\* LoopBody without the two cursor decrements (iSrc--, iDst--): the object
\* held back for the next comparison is passed over.
LoopBodyNoStepBack(os, srcs, dsts, st) ==
    LET hasSrc == st.iSrc < Len(srcs)
        hasDst == st.iDst < Len(dsts)
        srcObject == srcs[st.iSrc + 1]
        dstObject == dsts[st.iDst + 1]
        srcName == MergeName(os, srcObject)
        dstName == MergeName(os, dstObject)
        both == hasSrc /\ hasDst
        greater == both /\ StrLess(dstName, srcName)
        equal == both /\ srcName = dstName
        less == both /\ ~greater /\ ~equal
        keepSrc == hasSrc /\ ~greater
        keepDst == hasDst /\ ~less
    IN  IF ~hasSrc /\ ~hasDst
        THEN [st EXCEPT !.done = TRUE]
        ELSE [iSrc |-> st.iSrc + 1,
              iDst |-> st.iDst + 1,
              commonObj |-> IF equal THEN Append(st.commonObj, MkPair(srcObject, dstObject))
                            ELSE st.commonObj,
              dstOnly |-> IF ~keepSrc /\ keepDst THEN Append(st.dstOnly, dstObject.URL)
                          ELSE st.dstOnly,
              srcOnly |-> IF keepSrc /\ ~keepDst THEN Append(st.srcOnly, srcObject.URL)
                          ELSE st.srcOnly,
              done |-> FALSE]

\* LoopBody that breaks as soon as one of the two lists is exhausted.
LoopBodyStopsEarly(os, srcs, dsts, st) ==
    LET hasSrc == st.iSrc < Len(srcs)
        hasDst == st.iDst < Len(dsts)
        srcObject == srcs[st.iSrc + 1]
        dstObject == dsts[st.iDst + 1]
        srcName == MergeName(os, srcObject)
        dstName == MergeName(os, dstObject)
        greater == StrLess(dstName, srcName)
        equal == srcName = dstName
        less == ~greater /\ ~equal
    IN  IF ~hasSrc \/ ~hasDst
        THEN [st EXCEPT !.done = TRUE]
        ELSE [iSrc |-> (IF greater THEN st.iSrc - 1 ELSE st.iSrc) + 1,
              iDst |-> (IF less THEN st.iDst - 1 ELSE st.iDst) + 1,
              commonObj |-> IF equal THEN Append(st.commonObj, MkPair(srcObject, dstObject))
                            ELSE st.commonObj,
              dstOnly |-> IF greater THEN Append(st.dstOnly, dstObject.URL) ELSE st.dstOnly,
              srcOnly |-> IF less THEN Append(st.srcOnly, srcObject.URL) ELSE st.srcOnly,
              done |-> FALSE]

\* One iteration of the merge loop, with the post statement of the for.
LoopBody(os, srcs, dsts, st) ==
    LET hasSrc == st.iSrc < Len(srcs)
        hasDst == st.iDst < Len(dsts)
        srcObject == srcs[st.iSrc + 1]
        dstObject == dsts[st.iDst + 1]
        srcName == MergeName(os, srcObject)
        dstName == MergeName(os, dstObject)
        both == hasSrc /\ hasDst
        greater == both /\ StrLess(dstName, srcName)
        equal == both /\ srcName = dstName
        less == both /\ ~greater /\ ~equal
        \* srcObject / dstObject still non-nil when the switch is reached
        keepSrc == hasSrc /\ ~greater
        keepDst == hasDst /\ ~less
    IN  IF ~hasSrc /\ ~hasDst
        THEN [st EXCEPT !.done = TRUE]
        ELSE [iSrc |-> (IF greater THEN st.iSrc - 1 ELSE st.iSrc) + 1,
              iDst |-> (IF less THEN st.iDst - 1 ELSE st.iDst) + 1,
              commonObj |-> IF equal THEN Append(st.commonObj, MkPair(srcObject, dstObject))
                            ELSE st.commonObj,
              dstOnly |-> IF ~keepSrc /\ keepDst THEN Append(st.dstOnly, dstObject.URL)
                          ELSE st.dstOnly,
              srcOnly |-> IF keepSrc /\ ~keepDst THEN Append(st.srcOnly, srcObject.URL)
                          ELSE st.srcOnly,
              done |-> FALSE]

\* The loop's state as the variables hold it.
LoopState == [iSrc |-> iSrc, iDst |-> iDst, srcOnly |-> srcOnly, dstOnly |-> dstOnly,
              commonObj |-> commonObj, done |-> cpc = "done"]

\* compareObjects applied to two lists.
RECURSIVE RunLoop(_, _, _, _)
RunLoop(os, srcs, dsts, st) ==
    IF st.done THEN st ELSE RunLoop(os, srcs, dsts, LoopBody(os, srcs, dsts, st))

compareObjects(os, srcs, dsts) == RunLoop(os, SliceStable(srcs), SliceStable(dsts), LoopStart)

\* No two objects of the listing have the same raw path.
Distinct(objs) == \A i, j \in 1..Len(objs) : objs[i] = objs[j] => i = j

\* compareObjects is entered with the two filtered lists, in listing order.
InitCompare ==
    /\ goos \in GOOS
    /\ \E ns \in 0..MaxObjects : \E nd \in 0..(MaxObjects - ns) :
        /\ sourceObjects \in [1..ns -> {FileAt(p) : p \in RelPaths}]
        /\ destObjects \in [1..nd -> {FileAt(p) : p \in RelPaths}]
    /\ Distinct(sourceObjects)
    /\ Distinct(destObjects)
    /\ iSrc = 0
    /\ iDst = 0
    /\ srcOnly = <<>>
    /\ dstOnly = <<>>
    /\ commonObj = <<>>
    /\ cpc = "sort"
    /\ ResolveIdle
    /\ PlanIdle
    /\ ListIdle
    /\ RunIdle

\* The two sort.SliceStable calls.
SortObjects ==
    /\ cpc = "sort"
    /\ sourceObjects' = SliceStable(sourceObjects)
    /\ destObjects' = SliceStable(destObjects)
    /\ cpc' = "loop"
    /\ UNCHANGED <<goos, runVars, iSrc, iDst, srcOnly, dstOnly, commonObj, resolveVars, planVars, listVars, errorLog>>

\* One iteration of the merge loop; the iteration that finds both lists
\* exhausted breaks and returns.
MergeStep ==
    /\ cpc = "loop"
    /\ LET st == LoopBody(goos, sourceObjects, destObjects, LoopState)
       IN  /\ iSrc' = st.iSrc
           /\ iDst' = st.iDst
           /\ srcOnly' = st.srcOnly
           /\ dstOnly' = st.dstOnly
           /\ commonObj' = st.commonObj
           /\ cpc' = IF st.done THEN "done" ELSE "loop"
    /\ UNCHANGED <<goos, runVars, sourceObjects, destObjects, resolveVars, planVars, listVars, errorLog>>

NextCompare == SortObjects \/ MergeStep

SpecCompare == InitCompare /\ [][NextCompare]_vars

\* compareObjects runs on: nothing suspends the sort or the loop.
SpecCompareLive == SpecCompare /\ WF_vars(NextCompare)

---------------------------------------------------------------------------
(* generateDestinationURL *)

\* generateDestinationURL with objname taken from Relative() in both modes.
generateDestinationURLRelativeOnly(os, srcurl, dsturl, isBatch) ==
    LET objname == Relative(srcurl)
    IN  IF IsRemote(dsturl)
        THEN IF IsPrefix(dsturl) \/ IsBucket(dsturl)
             THEN Join(dsturl, objname)
             ELSE Clone(dsturl)
        ELSE Join(dsturl, objname)

generateDestinationURL(os, srcurl, dsturl, isBatch) ==
    LET objname == IF isBatch THEN Relative(srcurl) ELSE Base(os, srcurl)
    IN  IF IsRemote(dsturl)
        THEN IF IsPrefix(dsturl) \/ IsBucket(dsturl)
             THEN Join(dsturl, objname)
             ELSE Clone(dsturl)
        ELSE Join(dsturl, objname)

\* The idle values of the variables of compareObjects.
CompareIdle ==
    /\ sourceObjects = <<>>
    /\ destObjects = <<>>
    /\ iSrc = 0
    /\ iDst = 0
    /\ srcOnly = <<>>
    /\ dstOnly = <<>>
    /\ commonObj = <<>>
    /\ cpc = "idle"

\* generateDestinationURL is called with a source URL, a destination and a mode.
InitResolve ==
    /\ goos \in GOOS
    /\ resSrc \in { MkURL(r, p, p) : r \in BOOLEAN, p \in RelPaths }
    /\ resDst \in DestURLs
    /\ resBatch \in BOOLEAN
    /\ resOut = NoURL
    /\ rpc = "call"
    /\ CompareIdle
    /\ PlanIdle
    /\ ListIdle
    /\ RunIdle

Resolve ==
    /\ rpc = "call"
    /\ resOut' = generateDestinationURL(goos, resSrc, resDst, resBatch)
    /\ rpc' = "done"
    /\ UNCHANGED <<goos, runVars, resSrc, resDst, resBatch, compareVars, planVars, listVars, errorLog>>

NextResolve == Resolve

SpecResolve == InitResolve /\ [][NextResolve]_vars

---------------------------------------------------------------------------
(* planRun and the pipe it writes to *)

\* The command generateCommand builds for "cp": one source, one destination,
\* and the raw flag of defaultFlags.
Cp(src, dst) == [op |-> "cp", src |-> src, dst |-> dst, raw |-> TRUE]

\* The command generateCommand builds for "rm": all the URLs in one command.
Rm(urls) == [op |-> "rm", urls |-> urls, raw |-> TRUE]

\* What strategy.ShouldSync may return: nil, or the reason the pair is in sync.
StrategyResults == {"nil", "in sync"}

\* SyncRequired with the polarity turned around: a non-nil result copies.
SyncRequiredInverted(err) == err # "nil"

\* The err != nil test on the result of strategy.ShouldSync, negated: the
\* pair is copied.
SyncRequired(err) == err = "nil"

\* The condition of the delete command.
DeleteWanted(delete, onlyDest) == delete /\ Len(onlyDest) > 0

\* PartAfter with the delete command ahead of the common pairs.
PartAfterDeleteFirst(part) ==
    CASE part = "onlySource" -> "onlyDest"
      [] part = "onlyDest" -> "common"
      [] part = "common" -> "close"

\* PartAfter with a return that skips the deferred w.Close().
PartAfterNoClose(part) ==
    CASE part = "onlySource" -> "common"
      [] part = "common" -> "onlyDest"
      [] part = "onlyDest" -> "closed"

\* The statement that follows each of planRun's three parts.
PartAfter(part) ==
    CASE part = "onlySource" -> "common"
      [] part = "common" -> "onlyDest"
      [] part = "onlyDest" -> "close"

\* A listing of the objects at the paths of S, in some order.
RECURSIVE Listing(_)
Listing(S) ==
    IF S = {} THEN <<>>
    ELSE LET p == CHOOSE q \in S : TRUE IN <<FileAt(p)>> \o Listing(S \ {p})

\* The paths listed in the runs of planRun: the longest ones.
PlanPaths == { p \in RelPaths : Len(p) = MaxPathLen }

\* planRun is started with the partitions compareObjects returned; Run has
\* dropped both lists by then.
InitPlan ==
    /\ goos \in GOOS
    /\ \E S, D \in SUBSET PlanPaths :
        /\ Cardinality(S) + Cardinality(D) <= MaxObjects
        /\ \A p, q \in S : ToSlash(goos, p) = ToSlash(goos, q) => p = q
        /\ \A p, q \in D : ToSlash(goos, p) = ToSlash(goos, q) => p = q
        /\ LET st == compareObjects(goos, Listing(S), Listing(D))
           IN  /\ srcOnly = st.srcOnly
               /\ dstOnly = st.dstOnly
               /\ commonObj = st.commonObj
               /\ iSrc = st.iSrc
               /\ iDst = st.iDst
    /\ sourceObjects = <<>>
    /\ destObjects = <<>>
    /\ cpc = "done"
    /\ pDelete \in BOOLEAN
    /\ pBatch \in BOOLEAN
    /\ pDst \in DestURLs
    /\ ppc = "onlySource"
    /\ pIdx = 0
    /\ pipe = <<>>
    /\ received = <<>>
    /\ closed = FALSE
    /\ debugLog = <<>>
    /\ strategyLog = <<>>
    /\ cancelled = FALSE
    /\ xpc = "run"
    /\ AggIdle
    /\ ResolveIdle
    /\ ListIdle

\* Writable of a pipe that takes a command while it still offers another.
WritableAlways == TRUE

\* fmt.Fprintln(w, command) returns once the reader has taken the command:
\* planRun takes no step while the pipe still offers one.
Writable == pipe = <<>>

\* "only in source": one iteration of the loop, or its end.
PlanSourceOnly ==
    /\ ppc = "onlySource"
    /\ Writable
    /\ \/ /\ pIdx < Len(srcOnly)
          /\ LET srcurl == srcOnly[pIdx + 1]
                 curDestURL == generateDestinationURL(goos, srcurl, pDst, pBatch)
             IN  \/ /\ pipe' = Append(pipe, Cp(srcurl, curDestURL))
                    /\ UNCHANGED debugLog
                 \/ /\ debugLog' = Append(debugLog, [err |-> "generateCommand", urls |-> <<srcurl, curDestURL>>])
                    /\ UNCHANGED pipe
          /\ pIdx' = pIdx + 1
          /\ UNCHANGED ppc
       \/ /\ pIdx >= Len(srcOnly)
          /\ ppc' = PartAfter("onlySource")
          /\ pIdx' = 0
          /\ UNCHANGED <<pipe, debugLog>>
    /\ UNCHANGED <<goos, runVars, compareVars, resolveVars, pDelete, pBatch, pDst, received, closed, strategyLog, listVars, errorLog>>

\* "both in source and destination": one iteration of the loop, or its end.
PlanCommon ==
    /\ ppc = "common"
    /\ Writable
    /\ \/ /\ pIdx < Len(commonObj)
          /\ LET curSourceURL == commonObj[pIdx + 1].src.URL
                 curDestURL == commonObj[pIdx + 1].dst.URL
             IN  \E err \in StrategyResults :
                    /\ strategyLog' = Append(strategyLog, err)
                    /\ IF SyncRequired(err)
                       THEN \/ /\ pipe' = Append(pipe, Cp(curSourceURL, curDestURL))
                               /\ UNCHANGED debugLog
                            \/ /\ debugLog' = Append(debugLog, [err |-> "generateCommand", urls |-> <<curSourceURL, curDestURL>>])
                               /\ UNCHANGED pipe
                       ELSE /\ debugLog' = Append(debugLog, [err |-> err, urls |-> <<curSourceURL, curDestURL>>])
                            /\ UNCHANGED pipe
          /\ pIdx' = pIdx + 1
          /\ UNCHANGED ppc
       \/ /\ pIdx >= Len(commonObj)
          /\ ppc' = PartAfter("common")
          /\ pIdx' = 0
          /\ UNCHANGED <<pipe, debugLog, strategyLog>>
    /\ UNCHANGED <<goos, runVars, compareVars, resolveVars, pDelete, pBatch, pDst, received, closed, listVars, errorLog>>

\* "only in destination": the one delete command, if wanted.
PlanDelete ==
    /\ ppc = "onlyDest"
    /\ Writable
    /\ \/ /\ DeleteWanted(pDelete, dstOnly)
          /\ \/ /\ pipe' = Append(pipe, Rm(dstOnly))
                /\ UNCHANGED debugLog
             \/ /\ debugLog' = Append(debugLog, [err |-> "generateCommand", urls |-> dstOnly])
                /\ UNCHANGED pipe
       \/ /\ ~DeleteWanted(pDelete, dstOnly)
          /\ UNCHANGED <<pipe, debugLog>>
    /\ ppc' = PartAfter("onlyDest")
    /\ UNCHANGED <<goos, runVars, compareVars, resolveVars, pDelete, pBatch, pDst, pIdx, received, closed, strategyLog, listVars, errorLog>>

\* defer w.Close()
PlanClose ==
    /\ ppc = "close"
    /\ Writable
    /\ closed' = TRUE
    /\ ppc' = "closed"
    /\ UNCHANGED <<goos, runVars, compareVars, resolveVars, pDelete, pBatch, pDst, pIdx, pipe, received, debugLog, strategyLog, listVars, errorLog>>

\* The consumer of pipeReader, while it reads, takes the command a Write offers.
ConsumerRead ==
    /\ xpc = "run"
    /\ pipe # <<>>
    /\ received' = Append(received, pipe[1])
    /\ pipe' = Tail(pipe)
    /\ UNCHANGED <<goos, runVars, compareVars, resolveVars, pDelete, pBatch, pDst, ppc, pIdx, closed, debugLog, strategyLog, listVars, errorLog>>

\* The consumer's read of the closed, drained pipe returns io.EOF.
ConsumerEOF ==
    /\ xpc = "run"
    /\ pipe = <<>>
    /\ closed
    /\ xpc' = "eof"
    /\ UNCHANGED <<goos, cancelled, aggVars, compareVars, resolveVars, planVars, listVars, errorLog>>

\* The steps of planRun.
PlanStep == PlanSourceOnly \/ PlanCommon \/ PlanDelete \/ PlanClose

\* The steps of the consumer that reads to the end of the stream.
ConsumerStep == ConsumerRead \/ ConsumerEOF

NextPlan == PlanStep \/ ConsumerStep

SpecPlan == InitPlan /\ [][NextPlan]_vars

\* planRun runs on while its write is not blocked, and the consumer keeps
\* reading.
SpecPlanLive == SpecPlan /\ WF_vars(PlanStep) /\ WF_vars(ConsumerStep)

\* c.Context is cancelled.
Cancel ==
    /\ ~cancelled
    /\ xpc = "run"
    /\ cancelled' = TRUE
    /\ UNCHANGED <<goos, xpc, aggVars, compareVars, resolveVars, planVars, listVars, errorLog>>

\* The executor observes the cancellation: it stops reading and returns.
ConsumerStop ==
    /\ cancelled
    /\ xpc = "run"
    /\ xpc' = "returned"
    /\ UNCHANGED <<goos, cancelled, aggVars, compareVars, resolveVars, planVars, listVars, errorLog>>

NextCancel == PlanStep \/ ConsumerStep \/ Cancel \/ ConsumerStop

\* A run of planRun whose context may be cancelled at any moment; planRun
\* runs on while its write is not blocked, and the consumer reads on or stops.
SpecCancel == InitPlan /\ [][NextCancel]_vars /\ WF_vars(PlanStep) /\ WF_vars(ConsumerStep \/ ConsumerStop)

---------------------------------------------------------------------------
(* shouldSkipObject and the two listing tasks of getSourceAndDestinationObjects *)

\* storage.ObjectType.IsDir
IsDir(type) == type = "dir"

\* errorpkg.IsCancelation: the error is a cancellation.
IsCancelation(err) == err = "canceled"

\* storage.StorageClass.IsGlacier
IsGlacier(class) == class = "GLACIER"

\* The record printError leaves for the error err of object.
Reported(err, object) == [err |-> err, object |-> object]

\* The error shouldSkipObject builds for an object on Glacier storage.
GlacierError == "is on Glacier storage"

\* shouldSkipObject that reports a Glacier object whatever verbose is.
shouldSkipObjectWarnsAlways(object, verbose) ==
    IF IsDir(object.Type) \/ IsCancelation(object.Err)
    THEN [skip |-> TRUE, printed |-> <<>>]
    ELSE IF object.Err # "nil"
    THEN [skip |-> TRUE, printed |-> IF verbose THEN <<Reported(object.Err, object)>> ELSE <<>>]
    ELSE IF IsGlacier(object.StorageClass)
    THEN [skip |-> TRUE, printed |-> <<Reported(GlacierError, object)>>]
    ELSE [skip |-> FALSE, printed |-> <<>>]

\* shouldSkipObject without the test of the storage class.
shouldSkipObjectNoGlacier(object, verbose) ==
    IF IsDir(object.Type) \/ IsCancelation(object.Err)
    THEN [skip |-> TRUE, printed |-> <<>>]
    ELSE IF object.Err # "nil"
    THEN [skip |-> TRUE, printed |-> IF verbose THEN <<Reported(object.Err, object)>> ELSE <<>>]
    ELSE [skip |-> FALSE, printed |-> <<>>]

\* shouldSkipObject without the test for a cancellation.
shouldSkipObjectNoCancelation(object, verbose) ==
    IF IsDir(object.Type)
    THEN [skip |-> TRUE, printed |-> <<>>]
    ELSE IF object.Err # "nil"
    THEN [skip |-> TRUE, printed |-> IF verbose THEN <<Reported(object.Err, object)>> ELSE <<>>]
    ELSE IF IsGlacier(object.StorageClass)
    THEN [skip |-> TRUE, printed |-> IF verbose THEN <<Reported(GlacierError, object)>> ELSE <<>>]
    ELSE [skip |-> FALSE, printed |-> <<>>]

\* shouldSkipObject: whether the object is skipped, and what it reports
\* through printError on the way.
shouldSkipObject(object, verbose) ==
    IF IsDir(object.Type) \/ IsCancelation(object.Err)
    THEN [skip |-> TRUE, printed |-> <<>>]
    ELSE IF object.Err # "nil"
    THEN [skip |-> TRUE, printed |-> IF verbose THEN <<Reported(object.Err, object)>> ELSE <<>>]
    ELSE IF IsGlacier(object.StorageClass)
    THEN [skip |-> TRUE, printed |-> IF verbose THEN <<Reported(GlacierError, object)>> ELSE <<>>]
    ELSE [skip |-> FALSE, printed |-> <<>>]

\* What a listing can say of an object.
ObjectTypes == {"file", "dir"}

ObjectErrs == {"nil", "canceled", "access denied"}

StorageClasses == {"STANDARD", "GLACIER"}

\* The k-th object of a listing has a name of k bytes.
ListedURL(k) == MkURL(TRUE, [j \in 1..k |-> Zero], [j \in 1..k |-> Zero])

\* The listings of n objects.
Listings(n) ==
    { [k \in 1..n |-> MkObject(ListedURL(k), f[k][1], f[k][2], f[k][3])] :
        f \in [1..n -> ObjectTypes \X ObjectErrs \X StorageClasses] }

\* Both listing tasks are started on their channels.
InitList ==
    /\ goos \in GOOS
    /\ \E ns \in 0..MaxListed : \E nd \in 0..(MaxListed - ns) :
        /\ srcChan \in Listings(ns)
        /\ dstChan \in Listings(nd)
    /\ srcIdx = 0
    /\ dstIdx = 0
    /\ lpcSrc = "run"
    /\ lpcDst = "run"
    /\ lpc = "wait"
    /\ errorLog = <<>>
    /\ CompareIdle
    /\ ResolveIdle
    /\ PlanIdle
    /\ RunIdle

\* The source task: one iteration of its range loop, or the end of the
\* channel and wg.Done().
ListSource ==
    /\ lpcSrc = "run"
    /\ \/ /\ srcIdx < Len(srcChan)
          /\ LET srcObject == srcChan[srcIdx + 1]
                 r == shouldSkipObject(srcObject, TRUE)
             IN  /\ errorLog' = errorLog \o r.printed
                 /\ sourceObjects' = IF r.skip THEN sourceObjects ELSE Append(sourceObjects, srcObject)
          /\ srcIdx' = srcIdx + 1
          /\ UNCHANGED lpcSrc
       \/ /\ srcIdx >= Len(srcChan)
          /\ lpcSrc' = "done"
          /\ UNCHANGED <<srcIdx, sourceObjects, errorLog>>
    /\ UNCHANGED <<goos, runVars, destObjects, iSrc, iDst, srcOnly, dstOnly, commonObj, cpc, resolveVars, planVars,
                   srcChan, dstChan, dstIdx, lpcDst, lpc>>

\* The destination task: one iteration of its range loop, or the end of the
\* channel and wg.Done().
ListDest ==
    /\ lpcDst = "run"
    /\ \/ /\ dstIdx < Len(dstChan)
          /\ LET destObject == dstChan[dstIdx + 1]
                 r == shouldSkipObject(destObject, FALSE)
             IN  /\ errorLog' = errorLog \o r.printed
                 /\ destObjects' = IF r.skip THEN destObjects ELSE Append(destObjects, destObject)
          /\ dstIdx' = dstIdx + 1
          /\ UNCHANGED lpcDst
       \/ /\ dstIdx >= Len(dstChan)
          /\ lpcDst' = "done"
          /\ UNCHANGED <<dstIdx, destObjects, errorLog>>
    /\ UNCHANGED <<goos, runVars, sourceObjects, iSrc, iDst, srcOnly, dstOnly, commonObj, cpc, resolveVars, planVars,
                   srcChan, dstChan, srcIdx, lpcSrc, lpc>>

\* ListReturn without the wait for the two tasks.
ListReturnNoWait ==
    /\ lpc = "wait"
    /\ lpc' = "returned"
    /\ UNCHANGED <<goos, runVars, compareVars, resolveVars, planVars, srcChan, dstChan, srcIdx, dstIdx,
                   lpcSrc, lpcDst, errorLog>>

\* wg.Wait() returns, and getSourceAndDestinationObjects with it: both
\* lists and a nil error.
ListReturn ==
    /\ lpc = "wait"
    /\ lpcSrc = "done"
    /\ lpcDst = "done"
    /\ lpc' = "returned"
    /\ UNCHANGED <<goos, runVars, compareVars, resolveVars, planVars, srcChan, dstChan, srcIdx, dstIdx,
                   lpcSrc, lpcDst, errorLog>>

NextList == ListSource \/ ListDest \/ ListReturn

SpecList == InitList /\ [][NextList]_vars

---------------------------------------------------------------------------
(* The start of Run: validation, the start of the listing tasks, the diff *)

\* The listings of n objects, files and directories, without errors.
SetupListings(n) ==
    { l \in Listings(n) : \A k \in 1..n : l[k].Err = "nil" /\ l[k].StorageClass = "STANDARD" }

\* Run is called: nothing is parsed yet, no task is started.
InitSetup ==
    /\ goos \in GOOS
    /\ \E ns \in 0..MaxListed : \E nd \in 0..(MaxListed - ns) :
        /\ srcChan \in SetupListings(ns)
        /\ dstChan \in SetupListings(nd)
    /\ srcIdx = 0
    /\ dstIdx = 0
    /\ lpcSrc = "idle"
    /\ lpcDst = "idle"
    /\ lpc = "srcurl"
    /\ errorLog = <<>>
    /\ CompareIdle
    /\ ResolveIdle
    /\ PlanIdle
    /\ RunIdle

\* A statement of Run or of getSourceAndDestinationObjects that can fail:
\* without an error it goes on to the next statement; with one, Run returns
\* the error, after printError when the error comes out of
\* getSourceAndDestinationObjects.
Checked(from, to, inListing) ==
    /\ \/ /\ lpc' = to
          /\ UNCHANGED errorLog
       \/ /\ lpc' = "failed"
          /\ errorLog' = IF inListing THEN Append(errorLog, Reported(from, "none")) ELSE errorLog
    /\ UNCHANGED <<goos, runVars, compareVars, resolveVars, planVars, srcChan, dstChan, srcIdx, dstIdx,
                   lpcSrc, lpcDst>>

\* url.New(s.src)
ParseSource ==
    /\ lpc = "srcurl"
    /\ Checked("srcurl", "dsturl", FALSE)

\* url.New(s.dst)
ParseDest ==
    /\ lpc = "dsturl"
    /\ Checked("dsturl", "client", FALSE)

\* storage.NewClient for the source, and the mode of the run.
NewSourceClient ==
    /\ lpc = "client"
    /\ Checked("client", "listing.srcClient", FALSE)

\* getSourceAndDestinationObjects: storage.NewClient for the source.
ListingSourceClient ==
    /\ lpc = "listing.srcClient"
    /\ Checked("listing.srcClient", "listing.dstClient", TRUE)

\* getSourceAndDestinationObjects: storage.NewClient for the destination.
ListingDestClient ==
    /\ lpc = "listing.dstClient"
    /\ Checked("listing.dstClient", "listing.goSrc", TRUE)

\* getSourceAndDestinationObjects: the source task is started.
GoSource ==
    /\ lpc = "listing.goSrc"
    /\ lpcSrc' = "run"
    /\ lpc' = "listing.dsturl"
    /\ UNCHANGED <<goos, runVars, compareVars, resolveVars, planVars, srcChan, dstChan, srcIdx, dstIdx,
                   lpcDst, errorLog>>

\* getSourceAndDestinationObjects: url.New of the destination with the
\* wildcard appended.
ParseDestObjects ==
    /\ lpc = "listing.dsturl"
    /\ Checked("listing.dsturl", "listing.goDst", TRUE)

\* getSourceAndDestinationObjects: the destination task is started, and
\* wg.Wait() is called.
GoDest ==
    /\ lpc = "listing.goDst"
    /\ lpcDst' = "run"
    /\ lpc' = "wait"
    /\ UNCHANGED <<goos, runVars, compareVars, resolveVars, planVars, srcChan, dstChan, srcIdx, dstIdx,
                   lpcSrc, errorLog>>

\* Run calls compareObjects with the two lists returned.
CallCompare ==
    /\ lpc = "returned"
    /\ cpc = "idle"
    /\ cpc' = "sort"
    /\ UNCHANGED <<goos, runVars, sourceObjects, destObjects, iSrc, iDst, srcOnly, dstOnly, commonObj,
                   resolveVars, planVars, listVars, errorLog>>

NextSetup ==
    \/ ParseSource \/ ParseDest \/ NewSourceClient
    \/ ListingSourceClient \/ ListingDestClient \/ GoSource \/ ParseDestObjects \/ GoDest
    \/ ListSource \/ ListDest \/ ListReturn
    \/ CallCompare \/ SortObjects \/ MergeStep

SpecSetup == InitSetup /\ [][NextSetup]_vars

---------------------------------------------------------------------------
(* The end of Run: the error aggregator, the executor and the return *)

\* Error texts are sequences of words.  strings.Contains: the phrase occurs
\* in the text, word after word.
Contains(text, phrase) ==
    \E k \in 0..(Len(text) - Len(phrase)) : SubSeq(text, k + 1, k + Len(phrase)) = phrase

\* The phrase the aggregator looks for.
TooManyOpenFiles == <<"too", "many", "open", "files">>

\* The test of line 194.
IsFatal(err) == Contains(err, TooManyOpenFiles)

\* The errors an operation can report: a plain one, one of the fatal class,
\* and one that shares only the first words of the phrase.
ErrTexts ==
    { <<"access", "denied">>,
      <<"open", "0", ":">> \o TooManyOpenFiles,
      <<"too", "many", "open", "requests">> }

\* What the executor's Run can return: nil or an error.
ExecResults == { <<>>, <<"read", "failed">> }

\* The lines the aggregator prints before os.Exit(1).
FatalReport(err) == << <<"fdlimitWarning">>, <<"ERROR">> \o err >>

\* multierror.Append(err, merrorWaiter).ErrorOrNil(): the non-nil errors, in
\* order; nil, the empty list, when there is none.
CombinedError(err, merror) == (IF err = <<>> THEN <<>> ELSE <<err>>) \o merror

\* Run has started the aggregator goroutine and calls the executor.
InitAggregate ==
    /\ goos \in GOOS
    /\ errCh \in SeqsUpTo(ErrTexts, MaxErrors)
    /\ errIdx = 0
    /\ apc = "recv"
    /\ aErr = <<>>
    /\ merrorWaiter = <<>>
    /\ execErr \in ExecResults
    /\ mpc = "exec"
    /\ xpc = "run"
    /\ result = NoResult
    /\ exitCode = -1
    /\ stdout = <<>>
    /\ cancelled = FALSE
    /\ CompareIdle
    /\ ResolveIdle
    /\ PlanIdle
    /\ ListIdle

\* An operation of the executor sends its error on the channel: the send
\* completes when the aggregator's range receives it.
ExecutorSend ==
    /\ exitCode = -1
    /\ xpc = "run"
    /\ apc = "recv"
    /\ errIdx < Len(errCh)
    /\ aErr' = errCh[errIdx + 1]
    /\ errIdx' = errIdx + 1
    /\ apc' = "handle"
    /\ UNCHANGED <<goos, cancelled, xpc, errCh, merrorWaiter, execErr, mpc, result, exitCode, stdout,
                   compareVars, resolveVars, planVars, listVars, errorLog>>

\* The body of the aggregator's range loop, for the error received.
AggHandle ==
    /\ exitCode = -1
    /\ apc = "handle"
    /\ IF IsFatal(aErr)
       THEN /\ stdout' = stdout \o FatalReport(aErr)
            /\ exitCode' = 1
            /\ apc' = "exited"
            /\ UNCHANGED <<errorLog, merrorWaiter>>
       ELSE /\ errorLog' = Append(errorLog, Reported(aErr, "none"))
            /\ merrorWaiter' = Append(merrorWaiter, aErr)
            /\ apc' = "recv"
            /\ UNCHANGED <<stdout, exitCode>>
    /\ UNCHANGED <<goos, cancelled, xpc, errCh, errIdx, aErr, execErr, mpc, result,
                   compareVars, resolveVars, planVars, listVars>>

\* NewRun(c, pipeReader).Run returns, all its operations over.
ExecutorReturn ==
    /\ exitCode = -1
    /\ xpc = "run"
    /\ errIdx = Len(errCh)
    /\ xpc' = "returned"
    /\ UNCHANGED <<goos, cancelled, aggVars, compareVars, resolveVars, planVars, listVars, errorLog>>

\* Line 212: Run reads merrorWaiter and returns the combined error.
RunReturn ==
    /\ exitCode = -1
    /\ xpc = "returned"
    /\ mpc = "exec"
    /\ result' = CombinedError(execErr, merrorWaiter)
    /\ mpc' = "returned"
    /\ UNCHANGED <<goos, cancelled, xpc, errCh, errIdx, apc, aErr, merrorWaiter, execErr, exitCode, stdout,
                   compareVars, resolveVars, planVars, listVars, errorLog>>

NextAggregate == ExecutorSend \/ AggHandle \/ ExecutorReturn \/ RunReturn

SpecAggregate == InitAggregate /\ [][NextAggregate]_vars

---------------------------------------------------------------------------
(* The engine: each of its parts, started on its inputs. *)

Init == InitCompare \/ InitResolve \/ InitPlan \/ InitList \/ InitSetup \/ InitAggregate

Next == NextCompare \/ NextResolve \/ NextCancel \/ NextList \/ NextSetup \/ NextAggregate

Spec == Init /\ [][Next]_vars

---------------------------------------------------------------------------
(* Claims about compareObjects. *)

Range(seq) == { seq[k] : k \in 1..Len(seq) }

\* How often x occurs in seq.
Count(seq, x) == Cardinality({ k \in 1..Len(seq) : seq[k] = x })

\* The slash-normalized key of a URL on this host.
Key(u) == ToSlash(goos, Relative(u))

KeysOf(urls) == { Key(u) : u \in Range(urls) }

CommonKeys == { Key(p.src.URL) : p \in Range(commonObj) } \cup { Key(p.dst.URL) : p \in Range(commonObj) }

\* At most one object per slash-normalized relative path in the list.
OnePerKey(objs) ==
    \A i, j \in 1..Len(objs) : Key(objs[i].URL) = Key(objs[j].URL) => i = j

\* C1: for lists with at most one object per relative path on each side, the
\* three outputs of compareObjects are pairwise disjoint by slash-normalized
\* key, and a key present on both sides yields exactly one common pair.
C1_PartitionsDisjoint ==
    (cpc = "done" /\ OnePerKey(sourceObjects) /\ OnePerKey(destObjects)) =>
        /\ KeysOf(srcOnly) \cap KeysOf(dstOnly) = {}
        /\ CommonKeys \cap (KeysOf(srcOnly) \cup KeysOf(dstOnly)) = {}
        /\ \A s \in Range(sourceObjects) : \A d \in Range(destObjects) :
            Key(s.URL) = Key(d.URL) => Count(commonObj, MkPair(s, d)) = 1

\* C2: when compareObjects returns, every source object is in srcOnly or is
\* the source of a common pair, exactly once in all, and every destination
\* object is in dstOnly or is the destination of a common pair, exactly once
\* in all; the outputs hold nothing else.
C2_PartitionComplete ==
    cpc = "done" =>
        /\ \A o \in Range(sourceObjects) :
            Count(srcOnly, o.URL) + Count([k \in 1..Len(commonObj) |-> commonObj[k].src], o)
                = Count(sourceObjects, o)
        /\ \A o \in Range(destObjects) :
            Count(dstOnly, o.URL) + Count([k \in 1..Len(commonObj) |-> commonObj[k].dst], o)
                = Count(destObjects, o)
        /\ Len(srcOnly) + Len(commonObj) = Len(sourceObjects)
        /\ Len(dstOnly) + Len(commonObj) = Len(destObjects)

\* compareObjects has returned all three partitions non-empty.
C2_Witness ==
    /\ cpc = "done"
    /\ srcOnly # <<>>
    /\ dstOnly # <<>>
    /\ commonObj # <<>>


---------------------------------------------------------------------------
(* Claims about generateDestinationURL. *)

\* C3: in batch mode generateDestinationURL returns the destination joined
\* with the source's relative path, whatever the shape of the destination.
C3_BatchJoinsRelative ==
    (rpc = "done" /\ resBatch) => resOut = Join(resDst, Relative(resSrc))

\* C4: in single-object mode generateDestinationURL returns the destination
\* joined with the source's base name for a remote prefix or bucket root, the
\* destination unchanged for a remote exact key, and the destination joined
\* with the source's base name for a local destination.
C4_SingleModeTable ==
    (rpc = "done" /\ ~resBatch) =>
        /\ (IsRemote(resDst) /\ (IsPrefix(resDst) \/ IsBucket(resDst)))
            => resOut = Join(resDst, Base(goos, resSrc))
        /\ (IsRemote(resDst) /\ ~IsPrefix(resDst) /\ ~IsBucket(resDst))
            => resOut = resDst
        /\ ~IsRemote(resDst)
            => resOut = Join(resDst, Base(goos, resSrc))

\* A source in a directory was resolved under a remote prefix in single-object
\* mode, by its base name.
C4_Witness ==
    /\ rpc = "done"
    /\ ~resBatch
    /\ IsPrefix(resDst)
    /\ Base(goos, resSrc) # Relative(resSrc)
    /\ resOut = Join(resDst, Base(goos, resSrc))


---------------------------------------------------------------------------
(* Claims about planRun. *)

\* The commands written to the pipe so far, in the order written.
Stream == received \o pipe

RmAt == { k \in 1..Len(Stream) : Stream[k].op = "rm" }

\* C5: no delete command is emitted with the delete flag off; with it on, at
\* most one is emitted, only when the destination-only partition is not
\* empty, and it names exactly the destination-only URLs: none missing, and
\* no key of a source-only object or of a common pair.
C5_DeleteGating ==
    /\ ~pDelete => RmAt = {}
    /\ Cardinality(RmAt) <= 1
    /\ \A k \in RmAt :
        /\ dstOnly # <<>>
        /\ Stream[k].urls = dstOnly
        /\ KeysOf(Stream[k].urls) \cap (KeysOf(srcOnly) \cup CommonKeys) = {}

\* The place of x in seq, 0 when it is not there.
IndexOf(seq, x) == IF x \in Range(seq) THEN CHOOSE k \in 1..Len(seq) : seq[k] = x ELSE 0

CommonSrcURLs == [k \in 1..Len(commonObj) |-> commonObj[k].src.URL]

IsSourceOnlyCopy(e) == e.op = "cp" /\ e.src \in Range(srcOnly)

IsCommonCopy(e) == e.op = "cp" /\ e.src \in Range(CommonSrcURLs)

\* C6: in the stream every copy of a source-only object comes before every
\* copy of a common pair, the delete command comes after every copy, and the
\* copies of each group follow the order of their partition; the consumer
\* reads the commands in that order.
C6_StreamOrder ==
    /\ \A i, j \in 1..Len(Stream) : i < j =>
        /\ Stream[i].op = "cp"
        /\ IsSourceOnlyCopy(Stream[j]) => IsSourceOnlyCopy(Stream[i])
        /\ (IsSourceOnlyCopy(Stream[i]) /\ IsSourceOnlyCopy(Stream[j]))
            => IndexOf(srcOnly, Stream[i].src) < IndexOf(srcOnly, Stream[j].src)
        /\ (IsCommonCopy(Stream[i]) /\ IsCommonCopy(Stream[j]))
            => IndexOf(CommonSrcURLs, Stream[i].src) < IndexOf(CommonSrcURLs, Stream[j].src)
    /\ \A k \in 1..Len(Stream) : IsSourceOnlyCopy(Stream[k]) \/ IsCommonCopy(Stream[k]) \/ k \in RmAt
    /\ \A k \in 1..Len(received) : received[k] = Stream[k]

\* The consumer has read a copy of a source-only object, a copy of a common
\* pair and the delete command of one run.
C6_Witness ==
    /\ closed
    /\ \E i, j, k \in 1..Len(received) :
        /\ IsSourceOnlyCopy(received[i])
        /\ IsCommonCopy(received[j])
        /\ received[k].op = "rm"

\* C7: a copy of a common pair, from the pair's source to the pair's
\* destination, is emitted only when ShouldSync returned nil; a pair for which
\* it returned non-nil gets no command, the value is traced by printDebug and
\* reported nowhere else, and the pairs after it are still processed.
C7_StrategyPolarity ==
    /\ Len(strategyLog) <= Len(commonObj)
    /\ \A k \in 1..Len(strategyLog) :
        LET s == commonObj[k].src.URL
            d == commonObj[k].dst.URL
        IN  /\ Cp(s, d) \in Range(Stream) => strategyLog[k] = "nil"
            /\ strategyLog[k] # "nil" =>
                /\ \A e \in Range(Stream) : e.op = "cp" => e.src # s
                /\ [err |-> strategyLog[k], urls |-> <<s, d>>] \in Range(debugLog)
    /\ \A e \in Range(Stream) : IsCommonCopy(e) =>
        \E k \in 1..Len(strategyLog) :
            e = Cp(commonObj[k].src.URL, commonObj[k].dst.URL) /\ strategyLog[k] = "nil"
    /\ errorLog = <<>>
    /\ ppc \in {"onlyDest", "close", "closed"} => Len(strategyLog) = Len(commonObj)

\* A pair found in sync was skipped and a later pair was copied.
C7_Witness ==
    /\ closed
    /\ \E k, j \in 1..Len(strategyLog) :
        /\ k < j
        /\ strategyLog[k] # "nil"
        /\ strategyLog[j] = "nil"
        /\ Cp(commonObj[j].src.URL, commonObj[j].dst.URL) \in Range(received)

---------------------------------------------------------------------------
(* Claims about shouldSkipObject and the listing tasks. *)

\* The objects each task has taken from its channel.
SrcSeen == SubSeq(srcChan, 1, srcIdx)

DstSeen == SubSeq(dstChan, 1, dstIdx)

Seen == Range(SrcSeen) \cup Range(DstSeen)

Kept == Range(sourceObjects) \cup Range(destObjects)

\* The records of errorLog about object o.
ReportsOf(o) == { k \in 1..Len(errorLog) : errorLog[k].object = o }

\* C8: every object of the two filtered lists is a non-directory with no
\* error and a non-archival storage class, and shouldSkipObject returns false
\* for it.
C8_FilteredListsEligible ==
    \A o \in Kept :
        /\ o.Type # "dir"
        /\ o.Err = "nil"
        /\ o.StorageClass # "GLACIER"
        /\ ~shouldSkipObject(o, TRUE).skip
        /\ ~shouldSkipObject(o, FALSE).skip

\* Both lists were returned non-empty and the filter had dropped an object.
C8_Witness ==
    /\ lpc = "returned"
    /\ sourceObjects # <<>>
    /\ destObjects # <<>>
    /\ Len(sourceObjects) + Len(destObjects) < Len(srcChan) + Len(dstChan)

\* A Glacier object that is no directory and carries no error.
Archival(o) == o.StorageClass = "GLACIER" /\ o.Type # "dir" /\ o.Err = "nil"

\* C9 as claimed: a Glacier object that is no directory and carries no error
\* is skipped and reported, on the source side and on the destination side.
C9_GlacierAlwaysReported ==
    \A o \in Seen : Archival(o) =>
        /\ o \notin Kept
        /\ Count(errorLog, Reported(GlacierError, o)) = Count(SrcSeen, o) + Count(DstSeen, o)

\* C9 as amended: such an object is skipped on either side, and reported
\* once for each time the source listing yields it; the destination task
\* reports none.
C9_GlacierSkippedSourceReported ==
    \A o \in Seen : Archival(o) =>
        /\ o \notin Kept
        /\ Count(errorLog, Reported(GlacierError, o)) = Count(SrcSeen, o)
        /\ Cardinality(ReportsOf(o)) = Count(SrcSeen, o)

\* Both tasks have skipped a Glacier object, and only the source's is reported.
C9_Witness ==
    /\ lpc = "returned"
    /\ \E i \in 1..Len(srcChan) : \E j \in 1..Len(dstChan) :
        /\ Archival(srcChan[i])
        /\ Archival(dstChan[j])
        /\ srcChan[i] # dstChan[j]
        /\ Reported(GlacierError, srcChan[i]) \in Range(errorLog)
        /\ ReportsOf(dstChan[j]) = {}

Eligible(o) == o.Type = "file" /\ o.Err = "nil" /\ o.StorageClass = "STANDARD"

\* C10: an object with a cancellation error is skipped and never reported; a
\* non-directory with another error is skipped and reported once when it is
\* a source object, never when it is a destination object; a directory is
\* skipped without a report; and the objects after an error are still
\* listed: both tasks read their channels to the end and return the eligible
\* objects.
C10_ListingErrors ==
    /\ \A o \in Seen :
        /\ o.Err = "canceled" => (o \notin Kept /\ ReportsOf(o) = {})
        /\ (o.Type # "dir" /\ o.Err \notin {"nil", "canceled"}) =>
            /\ o \notin Kept
            /\ Count(errorLog, Reported(o.Err, o)) = Count(SrcSeen, o)
            /\ Cardinality(ReportsOf(o)) = Count(SrcSeen, o)
        /\ o.Type = "dir" => (o \notin Kept /\ ReportsOf(o) = {})
    /\ lpc = "returned" =>
        /\ srcIdx = Len(srcChan)
        /\ dstIdx = Len(dstChan)
        /\ sourceObjects = SelectSeq(srcChan, Eligible)
        /\ destObjects = SelectSeq(dstChan, Eligible)

\* The source listing yielded a failed object and then an eligible one, the
\* destination listing a failed object: the run returned the eligible object
\* and one report.
C10_Witness ==
    /\ lpc = "returned"
    /\ Len(srcChan) >= 2
    /\ srcChan[1].Err = "access denied"
    /\ srcChan[1].Type = "file"
    /\ Eligible(srcChan[2])
    /\ sourceObjects = <<srcChan[2]>>
    /\ Len(dstChan) >= 1
    /\ dstChan[1].Err = "access denied"
    /\ dstChan[1].Type = "file"
    /\ errorLog = <<Reported("access denied", srcChan[1])>>

---------------------------------------------------------------------------
(* Claims about the order compareObjects works in. *)

\* The orders a list can be listed in.
Perms(seq) ==
    { [k \in 1..Len(seq) |-> seq[f[k]]] :
        f \in { g \in [1..Len(seq) -> 1..Len(seq)] : \A i, j \in 1..Len(seq) : g[i] = g[j] => i = j } }

\* The three partitions of a loop state.
Outputs(st) == <<st.srcOnly, st.dstOnly, st.commonObj>>

\* C14: for lists with at most one object per relative path on each side,
\* compareObjects returns the same three partitions, element by element,
\* whatever order the source list and the destination list were listed in.
C14_OrderingIndependence ==
    (cpc = "done" /\ Distinct(sourceObjects) /\ Distinct(destObjects)) =>
        \A ps \in Perms(sourceObjects) : \A pd \in Perms(destObjects) :
            Outputs(compareObjects(goos, ps, pd)) = <<srcOnly, dstOnly, commonObj>>

\* compareObjects has returned three non-empty partitions for lists of two
\* objects each, and returns them for the source listed the other way round.
C14_Witness ==
    /\ cpc = "done"
    /\ Len(sourceObjects) = 2
    /\ Len(destObjects) = 2
    /\ Len(srcOnly) = 1 /\ Len(dstOnly) = 1 /\ Len(commonObj) = 1
    /\ \E ps \in Perms(sourceObjects) :
        /\ ps # sourceObjects
        /\ Outputs(compareObjects(goos, ps, destObjects)) = <<srcOnly, dstOnly, commonObj>>

\* The list does not decrease in the key the merge loop compares.
NonDecreasing(objs) ==
    \A i, j \in 1..Len(objs) :
        i < j => ~StrLess(MergeName(goos, objs[j]), MergeName(goos, objs[i]))

\* C15: each list that enters the merge loop is non-decreasing in the
\* slash-normalized relative path the loop compares, on every platform.
C15_SortedByMergeKey ==
    cpc \in {"loop", "done"} => (NonDecreasing(sourceObjects) /\ NonDecreasing(destObjects))

\* The iterations the loop has run before the stopping one: each appends one
\* element to one partition.
Iterations == Len(srcOnly) + Len(dstOnly) + Len(commonObj)

\* C20: the cursors never go below 0, so the guarded reads are in range; an
\* iteration stops the loop exactly when both cursors are past their lists,
\* and changes nothing then; every other iteration moves each cursor by 0 or
\* 1 and at least one of them by 1; there are at most n+m of these; and the
\* loop does stop.
C20_MergeTerminates ==
    /\ [](cpc \in {"sort", "loop", "done"} =>
            /\ iSrc >= 0
            /\ iDst >= 0
            /\ Iterations <= Len(sourceObjects) + Len(destObjects))
    /\ [][cpc = "loop" =>
            /\ cpc' = "done" <=> (iSrc >= Len(sourceObjects) /\ iDst >= Len(destObjects))
            /\ cpc' = "done" => UNCHANGED <<iSrc, iDst, srcOnly, dstOnly, commonObj>>
            /\ cpc' = "loop" =>
                /\ iSrc' \in {iSrc, iSrc + 1}
                /\ iDst' \in {iDst, iDst + 1}
                /\ iSrc' + iDst' > iSrc + iDst
                /\ Iterations' = Iterations + 1]_vars
    /\ <>(cpc = "done")

\* The loop has stopped after as many iterations as there are objects: no
\* path is on both sides.
C20_Witness ==
    /\ cpc = "done"
    /\ Len(sourceObjects) >= 2
    /\ Len(destObjects) >= 2
    /\ Iterations = Len(sourceObjects) + Len(destObjects)

---------------------------------------------------------------------------
(* Claims about the stream between planRun and the executor. *)

\* C16: the pipe never holds more than one command the consumer has not
\* taken, and while it holds one planRun does nothing: it generates no
\* command, calls no strategy, traces nothing and does not close.
C16_Backpressure ==
    /\ [](Len(pipe) <= 1)
    /\ [][pipe # <<>> => UNCHANGED <<ppc, pIdx, debugLog, strategyLog, closed>>]_vars

\* planRun is blocked in the write of its second command, with more
\* source-only objects to go.
C16_Witness ==
    /\ pipe # <<>>
    /\ Len(received) = 1
    /\ ppc = "onlySource"
    /\ pIdx < Len(srcOnly)

\* C17: once the context is cancelled planRun writes no further command, and
\* it reaches its end and closes the stream, also when the consumer has
\* stopped reading.
C17_CancellationObserved ==
    /\ [][cancelled => Stream' = Stream]_vars
    /\ cancelled ~> (ppc = "closed")

\* C19: the stream is closed only at the end of planRun, after its last
\* command was handed over; once closed it is not closed again and takes no
\* further command; the consumer sees end-of-stream only then, with every
\* command written in hand; and on every path of planRun a consumer that
\* keeps reading does see end-of-stream.
C19_CloseSignalling ==
    /\ [](closed => (ppc = "closed" /\ pipe = <<>>))
    /\ [](ppc = "closed" => closed)
    /\ [](xpc = "eof" => (closed /\ received = Stream))
    /\ [][closed => (closed' /\ ppc' = ppc /\ Stream' = Stream)]_vars
    /\ <>(xpc = "eof")

\* The consumer saw end-of-stream on the path where the generation of the
\* delete command failed, after it had received a copy.
C19_Witness ==
    /\ xpc = "eof"
    /\ received # <<>>
    /\ \E k \in 1..Len(debugLog) : debugLog[k].urls = dstOnly /\ dstOnly # <<>>
    /\ RmAt = {}

---------------------------------------------------------------------------
(* Claims about the error aggregator. *)

\* The errors the aggregator has received from the channel, in order.
ErrReceived == SubSeq(errCh, 1, errIdx)

NonFatal(err) == ~IsFatal(err)

\* The places of the fatal errors among the errors received.
FatalAt == { k \in 1..errIdx : IsFatal(errCh[k]) }

\* C11: the value Run returns holds the executor's own error and every
\* non-fatal error the aggregator has received; it is empty only when the
\* executor returned nil and the channel delivered nothing; and when Run
\* reads the accumulated error the aggregator holds no error it has still
\* to append.
C11_ErrorsAccumulated ==
    mpc = "returned" =>
        /\ result = CombinedError(execErr, SelectSeq(ErrReceived, NonFatal))
        /\ result = <<>> => (execErr = <<>> /\ errIdx = 0)
        /\ apc # "handle"

\* C12: the process exits only with status 1 and only on a fatal error,
\* which is the last error received, is reported and is not accumulated; a
\* fatal error received is handled at once and ends the run: Run returns no
\* combined result; errors of any other text never end the process.
C12_FatalExit ==
    /\ exitCode \in {-1, 1}
    /\ exitCode = 1 => (FatalAt = {errIdx} /\ stdout = FatalReport(errCh[errIdx]))
    /\ exitCode = -1 => stdout = <<>>
    /\ FatalAt = {} => exitCode = -1
    /\ FatalAt # {} => (FatalAt = {errIdx} /\ (exitCode = 1 \/ (apc = "handle" /\ aErr = errCh[errIdx])))
    /\ \A k \in 1..Len(merrorWaiter) : ~IsFatal(merrorWaiter[k])
    /\ FatalAt # {} => mpc # "returned"

---------------------------------------------------------------------------
(* Claims about the start of Run. *)

\* C13: when Run has returned an error of validation or of
\* getSourceAndDestinationObjects, no listing task was started and no
\* object was taken from a listing.
C13_ValidationBeforeListing ==
    lpc = "failed" =>
        /\ lpcSrc = "idle"
        /\ lpcDst = "idle"
        /\ srcIdx = 0
        /\ dstIdx = 0

\* seq is a prefix of longer.
IsPrefixOf(seq, longer) == Len(seq) <= Len(longer) /\ seq = SubSeq(longer, 1, Len(seq))

\* C18: compareObjects is started only after both listing tasks have read
\* their channels to the end and finished; until then each list only grows,
\* the source list only by a step of the source task and the destination
\* list only by a step of the destination task; and from the return of the
\* wait to the sort both lists hold all the eligible objects listed,
\* unchanged.
C18_ListingBarrier ==
    /\ [](cpc # "idle" =>
            /\ lpc = "returned"
            /\ lpcSrc = "done"
            /\ lpcDst = "done"
            /\ srcIdx = Len(srcChan)
            /\ dstIdx = Len(dstChan))
    /\ []((lpc = "returned" /\ cpc \in {"idle", "sort"}) =>
            /\ sourceObjects = SelectSeq(srcChan, Eligible)
            /\ destObjects = SelectSeq(dstChan, Eligible))
    /\ [][cpc = "idle" =>
            /\ IsPrefixOf(sourceObjects, sourceObjects')
            /\ IsPrefixOf(destObjects, destObjects')
            /\ sourceObjects' # sourceObjects =>
                (srcIdx' = srcIdx + 1 /\ lpcSrc = "run" /\ UNCHANGED <<destObjects, dstIdx>>)
            /\ destObjects' # destObjects =>
                (dstIdx' = dstIdx + 1 /\ lpcDst = "run" /\ UNCHANGED <<sourceObjects, srcIdx>>)
            /\ lpc = "returned" => UNCHANGED <<sourceObjects, destObjects>>]_vars

\* Both tasks listed objects, skipped one, and compareObjects then paired
\* an object of the two lists.
C18_Witness ==
    /\ cpc = "done"
    /\ lpc = "returned"
    /\ commonObj # <<>>
    /\ Len(sourceObjects) + Len(destObjects) < Len(srcChan) + Len(dstChan)

===========================================================================
